---- MODULE Spec2Model ----
(***************************************************************************)
(* A model of nvda_cekdataapi.py: the quote fetch with its two fallback    *)
(* tiers (get_current_price), the CSV append (append_to_csv), one job      *)
(* iteration (job) and the two operating modes of main (one-shot and the   *)
(* schedule-driven poll loop of run_scheduler).                            *)
(*                                                                         *)
(* Numbers are fixed-point: the model integer n stands for the value       *)
(* n / Unit, so 75 is 7.5 and 100 is 10.  Python's None is the model value *)
(* None; the provider never reports a negative price or volume.            *)
(***************************************************************************)
EXTENDS Integers, Sequences, FiniteSets, TLC

\* ------------------------------------------------------------------ bounds
MaxBars == 2
MaxDaily == 3
MaxLatency == 1
MaxInterval == 1
MaxClock == 125
MaxRows == 4

\* ------------------------------------------------------- program constants
Unit == 10
SecondsPerMinute == 60
None == -1
CSV_FILE == "nvda_prices.csv"
DEFAULT_SYMBOL == "NVDA"
Symbols == {DEFAULT_SYMBOL, "AAPL"}

VARIABLES
    upInfo,     \* what the provider answers to ticker.info
    upHist,     \* what it answers to history(period="2d", interval="1m")
    upDaily,    \* what it answers to history(period="5d", interval="1d")
    symbol,     \* args.symbol
    once,       \* args.once
    interval,   \* args.interval
    clock,      \* datetime.now(), in whole seconds since the start
    pc,         \* the statement the main thread is at
    now_ts, current, prev_close, day_high, day_low, volume,  \* locals of get_current_price
    requests,   \* the provider requests the running fetch has issued, in order
    row,        \* the record get_current_price returned to job
    steps,      \* the steps the running cycle has completed, in order
    csv,        \* the file at csv_path: whether it exists, and its lines in order
    persisted,  \* the rows handed to the append_to_csv calls that returned, in order
    printed,    \* the number of summaries print_summary wrote
    errors,     \* the number of "Job failed" entries logged
    jobs,       \* the number of jobs in schedule's registry
    next_run,   \* the registered job's next_run
    cyclesStarted,  \* the number of calls of job
    lastStart, prevStart,  \* the clock at the latest call of job and at the one before
    interruptedAt  \* the pc at which KeyboardInterrupt was raised, or "none"

vars == <<upInfo, upHist, upDaily, symbol, once, interval, clock, pc, now_ts,
          current, prev_close, day_high, day_low, volume, requests, row, steps,
          csv, persisted, printed, errors, jobs, next_run, cyclesStarted,
          lastStart, prevStart, interruptedAt>>

envVars  == <<upInfo, upHist, upDaily, symbol, once, interval>>
locals   == <<now_ts, current, prev_close, day_high, day_low, volume>>
schedVars == <<jobs, next_run, cyclesStarted, lastStart, prevStart, interruptedAt>>
outVars  == <<csv, persisted, printed, errors>>

\* ------------------------------------------------------------ the provider
SeqsUpTo(S, n) == UNION {[1..k -> S] : k \in 0..n}

InfoKeys == {"currentPrice", "previousClose", "dayHigh", "dayLow", "volume"}
EmptyInfo == [k \in InfoKeys |-> None]
\* Two full snapshots: a usual one, and one whose every field is zero.
SnapBases ==
    { [currentPrice |-> 75, previousClose |-> 70, dayHigh |-> 80, dayLow |-> 60, volume |-> 500],
      [k \in InfoKeys |-> 0] }
\* A snapshot carries any subset of the five fields.
Snapshots == {[k \in InfoKeys |-> IF k \in ks THEN b[k] ELSE None] :
                 ks \in SUBSET InfoKeys, b \in SnapBases}
InfoOutcomes == {[ok |-> FALSE, fields |-> EmptyInfo]}
                  \cup {[ok |-> TRUE, fields |-> s] : s \in Snapshots}

Bar(h, l, c, v) == [High |-> h, Low |-> l, Close |-> c, Volume |-> v]
Bars == {Bar(95, 40, 65, 300), Bar(85, 50, 75, 200)}
HistOutcomes == {[ok |-> FALSE, bars |-> <<>>]}
                  \cup {[ok |-> TRUE, bars |-> bs] : bs \in SeqsUpTo(Bars, MaxBars)}

DailyCloses == {100, 120, 150}
DailyOutcomes == {[ok |-> FALSE, closes |-> <<>>]}
                   \cup {[ok |-> TRUE, closes |-> cs] : cs \in SeqsUpTo(DailyCloses, MaxDaily)}

\* ------------------------------------------------------- get_current_price
\* float(x) keeps the value of a number; int(x) drops its fractional part.
ToFloat(x) == x
ToInt(x) == (x \div Unit) * Unit

Last(s) == s[Len(s)]
RECURSIVE MaxHigh(_)
MaxHigh(hist) ==
    IF Len(hist) = 1 THEN hist[1].High
    ELSE LET m == MaxHigh(Tail(hist)) IN IF hist[1].High > m THEN hist[1].High ELSE m
RECURSIVE MinLow(_)
MinLow(hist) ==
    IF Len(hist) = 1 THEN hist[1].Low
    ELSE LET m == MinLow(Tail(hist)) IN IF hist[1].Low < m THEN hist[1].Low ELSE m

\* ticker.info or {} behind try/except: a failed request reads as an empty dict.
InfoOrEmpty(up) == IF up.ok THEN up.fields ELSE EmptyInfo

NeedFallbackAlways(c, p, h, l, v) == TRUE
NeedFallback(c, p, h, l, v) ==
    c = None \/ p = None \/ h = None \/ l = None \/ v = None

PickCurrentOverwrite(cur, hist) == ToFloat(Last(hist).Close)
PickCurrent(cur, hist) == IF cur = None THEN ToFloat(Last(hist).Close) ELSE cur
PickHighLastBar(high, hist) == IF high = None THEN ToFloat(Last(hist).High) ELSE high
PickHigh(high, hist) == IF high = None THEN ToFloat(MaxHigh(hist)) ELSE high
PickLow(low, hist) == IF low = None THEN ToFloat(MinLow(hist)) ELSE low
PickVolume(vol, hist) == IF vol = None THEN ToInt(Last(hist).Volume) ELSE vol

PrevCloseLatest(day_hist) ==
    IF Len(day_hist) >= 1 THEN ToFloat(day_hist[Len(day_hist)]) ELSE None
PrevCloseFromDaily(day_hist) ==
    IF Len(day_hist) >= 2 THEN ToFloat(day_hist[Len(day_hist) - 1])
    ELSE IF day_hist # <<>> THEN ToFloat(day_hist[Len(day_hist)]) ELSE None

KeepNone(x, d) == x
FinalFallback(x, d) == IF x = None THEN d ELSE x

\* Lines 25-40: the timestamp, the snapshot request, the five best-effort fields.
GetInfo ==
    /\ pc = "info"
    /\ LET info == InfoOrEmpty(upInfo) IN
         /\ now_ts' = clock
         /\ current' = info["currentPrice"]
         /\ prev_close' = info["previousClose"]
         /\ day_high' = info["dayHigh"]
         /\ day_low' = info["dayLow"]
         /\ volume' = info["volume"]
         /\ pc' = IF NeedFallback(info["currentPrice"], info["previousClose"],
                                  info["dayHigh"], info["dayLow"], info["volume"])
                  THEN "hist" ELSE "final"
    /\ requests' = <<"info">>
    /\ \E d \in 0..MaxLatency : clock + d <= MaxClock /\ clock' = clock + d
    /\ UNCHANGED <<envVars, row, steps, outVars, schedVars>>

\* Lines 44-55 and 62-63: the intraday request and the four fields it resolves.
GetHist ==
    /\ pc = "hist"
    /\ requests' = Append(requests, "history_2d_1m")
    /\ IF upHist.ok /\ upHist.bars # <<>>
       THEN /\ current' = PickCurrent(current, upHist.bars)
            /\ day_high' = PickHigh(day_high, upHist.bars)
            /\ day_low' = PickLow(day_low, upHist.bars)
            /\ volume' = PickVolume(volume, upHist.bars)
            /\ pc' = IF prev_close = None THEN "daily" ELSE "final"
       ELSE /\ UNCHANGED <<current, day_high, day_low, volume>>
            /\ pc' = "final"
    /\ UNCHANGED <<envVars, clock, now_ts, prev_close, row, steps, outVars, schedVars>>

\* Lines 57-63: the daily request; its failure is caught by the same handler.
GetDaily ==
    /\ pc = "daily"
    /\ requests' = Append(requests, "history_5d_1d")
    /\ prev_close' = IF upDaily.ok THEN PrevCloseFromDaily(upDaily.closes) ELSE prev_close
    /\ pc' = "final"
    /\ UNCHANGED <<envVars, clock, now_ts, current, day_high, day_low, volume,
                   row, steps, outVars, schedVars>>

\* Lines 66-85: the zero defaults and the returned dict; the locals die with the call.
Return ==
    /\ pc = "final"
    /\ row' = [timestamp |-> now_ts,
               symbol |-> symbol,
               current_price |-> ToFloat(FinalFallback(current, 0)),
               previous_close |-> ToFloat(FinalFallback(prev_close, 0)),
               day_high |-> ToFloat(FinalFallback(day_high, 0)),
               day_low |-> ToFloat(FinalFallback(day_low, 0)),
               volume |-> ToInt(FinalFallback(volume, 0))]
    /\ now_ts' = None /\ current' = None /\ prev_close' = None
    /\ day_high' = None /\ day_low' = None /\ volume' = None
    /\ steps' = Append(steps, "fetch")
    /\ pc' = "print"
    /\ UNCHANGED <<envVars, clock, requests, outVars, schedVars>>

NoRow == [timestamp |-> None, symbol |-> "", current_price |-> None,
          previous_close |-> None, day_high |-> None, day_low |-> None, volume |-> None]
NoFile == [exists |-> FALSE, lines |-> <<>>]

\* A direct call of get_current_price(symbol), for every symbol and every
\* combination of answers of the provider, made at the end of the modelled
\* time (the call's duration plays no part in what it returns).
InitFetch ==
    /\ upInfo \in InfoOutcomes
    /\ upHist \in HistOutcomes
    /\ upDaily \in DailyOutcomes
    /\ symbol \in Symbols
    /\ once = TRUE
    /\ interval = 1
    /\ clock = MaxClock
    /\ pc = "info"
    /\ now_ts = None /\ current = None /\ prev_close = None
    /\ day_high = None /\ day_low = None /\ volume = None
    /\ requests = <<>>
    /\ row = NoRow
    /\ steps = <<>>
    /\ csv = NoFile /\ persisted = <<>> /\ printed = 0 /\ errors = 0
    /\ jobs = 0 /\ next_run = None /\ cyclesStarted = 0
    /\ lastStart = None /\ prevStart = None /\ interruptedAt = "none"

NextFetch == GetInfo \/ GetHist \/ GetDaily \/ Return
SpecFetch == InitFetch /\ [][NextFetch]_vars

\* ------------------------------------------------------------ append_to_csv
Columns == <<"timestamp", "symbol", "current_price", "previous_close",
             "day_high", "day_low", "volume">>
HeaderLine == [kind |-> "header", cells |-> Columns]
\* pd.DataFrame([row]).to_csv(index=False): one line, the values in column order.
DataLine(r) == [kind |-> "row",
                cells |-> <<r.timestamp, r.symbol, r.current_price, r.previous_close,
                            r.day_high, r.day_low, r.volume>>]

HeaderAlways(file) == TRUE
HeaderNeeded(file) == ~file.exists

\* Lines 90-92: mode="a" creates the file when it is missing and appends otherwise.
append_to_csv(file, r) ==
    [exists |-> TRUE,
     lines |-> IF HeaderNeeded(file)
               THEN file.lines \o <<HeaderLine, DataLine(r)>>
               ELSE Append(file.lines, DataLine(r))]

\* ---------------------------------------------------- job, main, scheduler
JobPCs == {"info", "hist", "daily", "final", "print", "persist", "appended"}
LoopPCs == {"run_pending", "sleep"}

ModeIgnored(o) == FALSE
ModeOnce(o) == o

PeriodSeconds(n) == n
Period(n) == n * SecondsPerMinute

\* Where control goes when job returns: to main, which returns, or to
\* run_pending, which returns to the loop's time.sleep(1).
AfterJob(o) == IF ModeOnce(o) THEN "exit" ELSE "sleep"

Propagates(o) == "crashed"
OnJobException(o) == AfterJob(o)

\* Line 117: the handler logs the failure.
Swallowed(n) == n
LogFailure(n) == n + 1

\* schedule's Job.run after job_func returns: next_run = now + period.
Reschedule(target, nr) == IF target = "sleep" THEN clock + Period(interval) ELSE nr

\* The call of job(symbol, csv_path), line 110.
CallJob ==
    /\ pc' = "info"
    /\ cyclesStarted' = cyclesStarted + 1
    /\ prevStart' = lastStart
    /\ lastStart' = clock
    /\ steps' = <<>>
    /\ requests' = <<>>
    /\ UNCHANGED <<envVars, clock, locals, row, outVars, jobs, next_run, interruptedAt>>

\* Lines 144-145: --once runs job directly.
MainOnce ==
    /\ pc = "main"
    /\ ModeOnce(once)
    /\ CallJob

\* Lines 146-147 and 122-124: run_scheduler clears the registry and registers job.
StartScheduler ==
    /\ pc = "main"
    /\ ~ModeOnce(once)
    /\ jobs' = 1
    /\ next_run' = clock + Period(interval)
    /\ pc' = "run_pending"
    /\ UNCHANGED <<envVars, clock, locals, requests, row, steps, outVars,
                   cyclesStarted, lastStart, prevStart, interruptedAt>>

\* Line 127: schedule.run_pending() runs the job when now >= next_run.
RunPendingDue ==
    /\ pc = "run_pending"
    /\ jobs > 0 /\ clock >= next_run
    /\ CallJob

RunPendingIdle ==
    /\ pc = "run_pending"
    /\ ~(jobs > 0 /\ clock >= next_run)
    /\ pc' = "sleep"
    /\ UNCHANGED <<envVars, clock, locals, requests, row, steps, outVars, schedVars>>

\* Line 128: time.sleep(1), then the loop's next iteration.
Sleep ==
    /\ pc = "sleep"
    /\ clock < MaxClock
    /\ clock' = clock + 1
    /\ pc' = "run_pending"
    /\ UNCHANGED <<envVars, locals, requests, row, steps, outVars, schedVars>>

\* Line 114: print_summary(row).
PrintOk ==
    /\ pc = "print"
    /\ printed' = printed + 1
    /\ steps' = Append(steps, "print")
    /\ pc' = "persist"
    /\ UNCHANGED <<envVars, clock, locals, requests, row, csv, persisted, errors, schedVars>>

\* Lines 114, 116-117: print_summary raises (a closed stdout, an encoding error).
PrintFails ==
    /\ pc = "print"
    /\ errors' = LogFailure(errors)
    /\ pc' = OnJobException(once)
    /\ next_run' = Reschedule(OnJobException(once), next_run)
    /\ UNCHANGED <<envVars, clock, locals, requests, row, steps, csv, persisted, printed,
                   jobs, cyclesStarted, lastStart, prevStart, interruptedAt>>

\* Lines 115, 90-92: append_to_csv(row, csv_path) writes the file.
PersistOk ==
    /\ pc = "persist"
    /\ csv' = append_to_csv(csv, row)
    /\ persisted' = Append(persisted, row)
    /\ steps' = Append(steps, "persist")
    /\ pc' = "appended"
    /\ UNCHANGED <<envVars, clock, locals, requests, row, printed, errors, schedVars>>

\* Line 93 and the returns of append_to_csv and job.
JobReturns ==
    /\ pc = "appended"
    /\ pc' = AfterJob(once)
    /\ next_run' = Reschedule(AfterJob(once), next_run)
    /\ UNCHANGED <<envVars, clock, locals, requests, row, steps, outVars,
                   jobs, cyclesStarted, lastStart, prevStart, interruptedAt>>

\* Lines 115-117: to_csv cannot open the file (no permission, no directory).
PersistFails ==
    /\ pc = "persist"
    /\ errors' = LogFailure(errors)
    /\ pc' = OnJobException(once)
    /\ next_run' = Reschedule(OnJobException(once), next_run)
    /\ UNCHANGED <<envVars, clock, locals, requests, row, steps, csv, persisted, printed,
                   jobs, cyclesStarted, lastStart, prevStart, interruptedAt>>

\* SIGINT: Python raises KeyboardInterrupt in the main thread at the statement
\* it is executing.  No handler of job or get_current_price catches it (they
\* catch Exception); the one of run_scheduler, lines 129-130, does, for the
\* statements inside its try.  Anywhere else it ends the process.
InsideTry == ~ModeOnce(once) /\ pc \in LoopPCs \cup JobPCs
Interrupt ==
    /\ pc \in {"main"} \cup LoopPCs \cup JobPCs
    /\ interruptedAt = "none"
    /\ interruptedAt' = pc
    /\ pc' = IF InsideTry THEN "stopped" ELSE "killed"
    /\ now_ts' = None /\ current' = None /\ prev_close' = None
    /\ day_high' = None /\ day_low' = None /\ volume' = None
    /\ UNCHANGED <<envVars, clock, requests, row, steps, outVars,
                   jobs, next_run, cyclesStarted, lastStart, prevStart>>

\* A few answers of the provider, for the runs of the whole program.
Scenarios ==
    { <<[ok |-> TRUE, fields |-> [currentPrice |-> 75, previousClose |-> 70,
                                  dayHigh |-> 80, dayLow |-> 60, volume |-> 500]],
        [ok |-> TRUE, bars |-> <<Bar(95, 40, 65, 300)>>],
        [ok |-> TRUE, closes |-> <<100, 120>>]>>,
      <<[ok |-> FALSE, fields |-> EmptyInfo],
        [ok |-> TRUE, bars |-> <<Bar(95, 40, 65, 300), Bar(85, 50, 75, 200)>>],
        [ok |-> TRUE, closes |-> <<100, 120, 150>>]>>,
      <<[ok |-> FALSE, fields |-> EmptyInfo],
        [ok |-> FALSE, bars |-> <<>>],
        [ok |-> FALSE, closes |-> <<>>]>> }

Init ==
    /\ \E sc \in Scenarios : upInfo = sc[1] /\ upHist = sc[2] /\ upDaily = sc[3]
    /\ symbol \in Symbols
    /\ once \in BOOLEAN
    /\ interval \in 1..MaxInterval
    /\ clock = 0
    /\ pc = "main"
    /\ now_ts = None /\ current = None /\ prev_close = None
    /\ day_high = None /\ day_low = None /\ volume = None
    /\ requests = <<>>
    /\ row = NoRow
    /\ steps = <<>>
    /\ csv = NoFile /\ persisted = <<>> /\ printed = 0 /\ errors = 0
    /\ jobs = 0 /\ next_run = None /\ cyclesStarted = 0
    /\ lastStart = None /\ prevStart = None /\ interruptedAt = "none"

Step ==
    \/ MainOnce \/ StartScheduler \/ RunPendingDue \/ RunPendingIdle \/ Sleep
    \/ GetInfo \/ GetHist \/ GetDaily \/ Return
    \/ PrintOk \/ PrintFails \/ PersistOk \/ PersistFails \/ JobReturns
Next == Step \/ Interrupt
Spec == Init /\ [][Next]_vars

\* The interpreter keeps executing the main thread; nothing obliges a user to
\* press Ctrl-C.
FairSpec == Spec /\ WF_vars(Step)

\* Direct calls of append_to_csv on a destination that does not exist at first.
SampleRows ==
    { [timestamp |-> t, symbol |-> DEFAULT_SYMBOL, current_price |-> c,
       previous_close |-> 70, day_high |-> 80, day_low |-> 60, volume |-> 500] :
      t \in {0, 60}, c \in {0, 75} }

InitPersist ==
    /\ upInfo = [ok |-> FALSE, fields |-> EmptyInfo]
    /\ upHist = [ok |-> FALSE, bars |-> <<>>]
    /\ upDaily = [ok |-> FALSE, closes |-> <<>>]
    /\ symbol = DEFAULT_SYMBOL
    /\ once = TRUE
    /\ interval = 1
    /\ clock = 0
    /\ pc = "persist"
    /\ now_ts = None /\ current = None /\ prev_close = None
    /\ day_high = None /\ day_low = None /\ volume = None
    /\ requests = <<>>
    /\ row = NoRow
    /\ steps = <<>>
    /\ csv = NoFile /\ persisted = <<>> /\ printed = 0 /\ errors = 0
    /\ jobs = 0 /\ next_run = None /\ cyclesStarted = 0
    /\ lastStart = None /\ prevStart = None /\ interruptedAt = "none"

PersistCall ==
    /\ pc = "persist"
    /\ Len(persisted) < MaxRows
    /\ \E r \in SampleRows :
         /\ row' = r
         /\ csv' = append_to_csv(csv, r)
         /\ persisted' = Append(persisted, r)
    /\ UNCHANGED <<envVars, clock, pc, locals, requests, steps, printed, errors, schedVars>>

NextPersist == PersistCall
SpecPersist == InitPersist /\ [][NextPersist]_vars

\* =================================================================== claims
Returned == pc = "print"
Snap == InfoOrEmpty(upInfo)
SnapshotFull == \A k \in InfoKeys : Snap[k] # None
BarsAvailable == upHist.ok /\ upHist.bars # <<>>
RowNumbers == <<row.current_price, row.previous_close, row.day_high, row.day_low, row.volume>>

\* C1: get_current_price always returns, whatever the provider answers, and
\* the record it returns has its timestamp, its symbol and its five numbers,
\* none of them None; when the snapshot gives no field and the intraday
\* request fails or returns no bar (both tiers fail) the four prices and the
\* volume are zero.
C1_FetchAlwaysReturnsACompleteRecord ==
    /\ pc \in {"info", "hist", "daily", "final"} => ENABLED NextFetch
    /\ Returned =>
         /\ row.timestamp # None
         /\ row.symbol = symbol
         /\ \A i \in 1..5 : RowNumbers[i] # None /\ RowNumbers[i] >= 0
         /\ (Snap = EmptyInfo /\ ~BarsAvailable) => RowNumbers = <<0, 0, 0, 0, 0>>
C1_Witness ==
    /\ Returned /\ ~upInfo.ok /\ ~upHist.ok /\ ~upDaily.ok
    /\ RowNumbers = <<0, 0, 0, 0, 0>> /\ row.symbol = "AAPL"

\* What the daily bars alone say previous_close should be.
DailyPrevClose ==
    IF Len(upDaily.closes) >= 2 THEN upDaily.closes[Len(upDaily.closes) - 1]
    ELSE IF Len(upDaily.closes) = 1 THEN upDaily.closes[1] ELSE 0

\* C2 as stated: whenever the snapshot has no previous_close and the daily
\* query answers, the returned previous_close is the second-to-last daily
\* close, or the only one, or 0.0 when there is none.
C2_AsClaimed ==
    (Returned /\ Snap["previousClose"] = None /\ upDaily.ok)
        => row.previous_close = DailyPrevClose

\* C2 as amended: the same, when the intraday query returned at least one
\* bar; when it failed or returned none, the daily query is not issued and
\* previous_close is 0.0, and so it is when the daily query fails.
C2_PrevCloseFromDailyBehindIntraday ==
    (Returned /\ Snap["previousClose"] = None) =>
        IF BarsAvailable
        THEN /\ requests = <<"info", "history_2d_1m", "history_5d_1d">>
             /\ row.previous_close = IF upDaily.ok THEN DailyPrevClose ELSE 0
        ELSE /\ requests = <<"info", "history_2d_1m">>
             /\ row.previous_close = 0
C2_Witness ==
    /\ Returned /\ Snap["previousClose"] = None /\ BarsAvailable
    /\ upDaily.ok /\ upDaily.closes = <<100, 120, 150>>
    /\ row.previous_close = 120

\* C7: when the snapshot has all five fields, the fetch issues the snapshot
\* request and no bar request, and the record carries the snapshot's values.
C7_FullSnapshotShortCircuits ==
    SnapshotFull =>
        /\ requests \in {<<>>, <<"info">>}
        /\ Returned => RowNumbers = <<Snap["currentPrice"], Snap["previousClose"],
                                      Snap["dayHigh"], Snap["dayLow"], Snap["volume"]>>
C7_Witness ==
    /\ Returned /\ SnapshotFull /\ requests = <<"info">>
    /\ RowNumbers = <<75, 70, 80, 60, 500>>

\* C8: when the snapshot gives nothing and the intraday query returns bars,
\* then whatever the daily query does, day_high is the greatest High of the
\* bars, day_low the least Low, and current_price and volume are the Close
\* and Volume of the last bar.
C8_BarsResolveAnEmptySnapshot ==
    (Returned /\ Snap = EmptyInfo /\ BarsAvailable) =>
        LET bars == upHist.bars IN
        /\ \A i \in 1..Len(bars) : bars[i].High <= row.day_high /\ bars[i].Low >= row.day_low
        /\ \E i \in 1..Len(bars) : bars[i].High = row.day_high
        /\ \E i \in 1..Len(bars) : bars[i].Low = row.day_low
        /\ row.current_price = bars[Len(bars)].Close
        /\ row.volume = bars[Len(bars)].Volume
C8_Witness ==
    /\ Returned /\ ~upInfo.ok /\ ~upDaily.ok
    /\ upHist.bars = <<Bar(95, 40, 65, 300), Bar(85, 50, 75, 200)>>
    /\ RowNumbers = <<75, 0, 95, 40, 200>>

\* C10: each field the snapshot supplied is returned with the snapshot's
\* value, whatever the bar queries return and whichever other field is
\* missing.
C10_SnapshotFieldsTakePrecedence ==
    Returned =>
        /\ Snap["currentPrice"] # None => row.current_price = Snap["currentPrice"]
        /\ Snap["previousClose"] # None => row.previous_close = Snap["previousClose"]
        /\ Snap["dayHigh"] # None => row.day_high = Snap["dayHigh"]
        /\ Snap["dayLow"] # None => row.day_low = Snap["dayLow"]
        /\ Snap["volume"] # None => row.volume = Snap["volume"]
C10_Witness ==
    /\ Returned /\ BarsAvailable /\ upDaily.ok
    /\ Snap["currentPrice"] = 75 /\ Snap["dayHigh"] = None /\ Snap["previousClose"] = None
    /\ Last(upHist.bars).Close = 65
    /\ row.current_price = 75 /\ row.day_high = 95

\* C4: starting from a destination that does not exist, after the persist
\* calls that returned the file is one header line followed by one data line
\* per call, in call order (so no call rewrote the header or touched a line
\* that was there).
C4_OneHeaderThenOneRowPerCall ==
    IF persisted = <<>>
    THEN csv = NoFile
    ELSE /\ csv.exists
         /\ Len(csv.lines) = Len(persisted) + 1
         /\ csv.lines[1].kind = "header" /\ csv.lines[1].cells = Columns
         /\ \A i \in 1..Len(persisted) :
              /\ csv.lines[i + 1].kind = "row"
              /\ csv.lines[i + 1] = DataLine(persisted[i])
C4_Witness ==
    /\ Len(persisted) = 3 /\ Len(csv.lines) = 4
    /\ persisted[1] # persisted[2]

\* ------------------------------------------------ the scheduler's state
SchedState ==
    CASE pc = "main" -> "Idle"
      [] pc \in JobPCs -> "Executing"
      [] pc = "run_pending" /\ jobs > 0 /\ clock >= next_run -> "Due"
      [] pc \in LoopPCs -> "Scheduled"
      [] pc = "stopped" -> "Stopped"
      [] OTHER -> "Ended"
Completed == Len(persisted) + errors
Unwritten == JobPCs \ {"appended"}

C5_FailureKeepsTheTaskScheduled ==
    /\ [][(~once /\ pc \in JobPCs /\ errors' # errors) =>
            /\ pc' = "sleep" /\ SchedState' = "Scheduled"
            /\ jobs' = 1
            /\ next_run' = clock' + interval * 60]_vars
    /\ [](~once /\ errors > 0 /\ interruptedAt = "none" => pc \in LoopPCs \cup JobPCs)
    /\ (~once /\ errors > 0 /\ cyclesStarted = 1)
          ~> (cyclesStarted > 1 \/ interruptedAt # "none" \/ clock = MaxClock)
C5_Witness ==
    /\ ~once /\ errors = 1 /\ cyclesStarted = 2 /\ pc = "info"
    /\ interruptedAt = "none" /\ clock < MaxClock

\* C6: in continuous mode two starts of the cycle are at least interval
\* minutes apart, the scheduler moves Idle -> Scheduled -> (Due -> Executing
\* -> Scheduled)*, it can always go on while it is not interrupted, and it
\* ends only by the interrupt.
Transitions ==
    { <<"Idle", "Scheduled">>, <<"Scheduled", "Scheduled">>, <<"Scheduled", "Due">>,
      <<"Due", "Executing">>, <<"Executing", "Executing">>, <<"Executing", "Scheduled">>,
      <<"Scheduled", "Stopped">>, <<"Due", "Stopped">>, <<"Executing", "Stopped">>,
      <<"Idle", "Ended">> }
C6_RunsEveryIntervalUntilInterrupted ==
    /\ [](~once /\ cyclesStarted >= 2 => lastStart - prevStart >= interval * 60)
    /\ [](~once /\ cyclesStarted >= 1 => lastStart >= interval * 60)
    /\ [](~once /\ SchedState \in {"Stopped", "Ended"} => interruptedAt # "none")
    /\ [](~once /\ interruptedAt = "none" /\ clock < MaxClock => ENABLED Step)
    /\ [][~once => <<SchedState, SchedState'>> \in Transitions]_vars
C6_Witness ==
    /\ ~once /\ pc = "stopped" /\ cyclesStarted = 2 /\ interruptedAt = "sleep"
    /\ lastStart - prevStart >= 60

\* C9: one-shot mode calls job once, which fetches, then prints, then
\* persists, each at most once; it registers no job, appends at most one row
\* and returns.
IsPrefix(s, t) == Len(s) <= Len(t) /\ \A i \in 1..Len(s) : s[i] = t[i]
C9_OneShotRunsOneCycle ==
    once =>
        /\ pc \in {"main", "exit", "killed"} \cup JobPCs
        /\ cyclesStarted <= 1
        /\ pc \in JobPCs \cup {"exit"} => cyclesStarted = 1
        /\ IsPrefix(steps, <<"fetch", "print", "persist">>)
        /\ printed <= 1 /\ Len(persisted) <= 1 /\ Len(csv.lines) <= 2
        /\ jobs = 0 /\ next_run = None
        /\ pc = "exit" => (steps = <<"fetch", "print", "persist">> \/ errors = 1)
C9_Witness ==
    /\ once /\ pc = "exit" /\ steps = <<"fetch", "print", "persist">>
    /\ printed = 1 /\ Len(csv.lines) = 2 /\ errors = 0

====
